---- MODULE Spec2Model ----
(***************************************************************************)
(* Model of src/ctl/mod.rs of wash: the connection-configuration resolver  *)
(* (ctl_client_from_opts), the auction-based placement of start_actor and  *)
(* start_provider, and the manifest application of apply_manifest.         *)
(*                                                                         *)
(* One behaviour is one command invocation.  Init draws the command and    *)
(* its environment (context files, manifest file); every control-interface *)
(* call is two steps, the request being issued and its response being      *)
(* received, so that requests in flight are visible in the state.          *)
(***************************************************************************)
EXTENDS Integers, Sequences, FiniteSets, TLC

VARIABLES
    cmd,        \* the parsed command (CtlCliCommand and its fields)
    env,        \* what the command finds on disk: contexts, manifest file
    pc,         \* position of the command's flow of control
    ctx,        \* ctl_client_from_opts: the loaded context, if any
    resolved,   \* ctl_client_from_opts: the connection parameters it determined
    client,     \* the CtlClient built (lattice prefix, request timeout)
    hm,         \* apply_manifest: the loaded HostManifest
    idx,        \* apply_manifest_*: position of the loop in its list
    results,    \* apply_manifest_*: the loop's local results vector
    out,        \* apply_manifest: its results vector
    suitable_hosts, \* start_*: the auction's answer
    host,       \* start_*: the host chosen for the start call
    calls,      \* control-interface requests issued, in issue order
    inflight,   \* positions in calls of the requests not yet answered
    responses,  \* responses received, in order of receipt
    ret,        \* what the command function returned
    handled     \* what handle_command returned

vars == <<cmd, env, pc, ctx, resolved, client, hm, idx, results, out,
          suitable_hosts, host, calls, inflight, responses, ret, handled>>

----------------------------------------------------------------------------
(* Bounds of the model *)

\* most items (actors + capabilities + links) of a manifest
MaxItems == 4
\* most responses an auction returns
MaxResponses == 2

----------------------------------------------------------------------------
(* Option and Result values *)

None == <<>>
Some(v) == <<v>>
IsSome(o) == o # <<>>
Unwrap(o) == o[1]
Option(S) == {None} \cup {Some(v) : v \in S}

Ok(v) == [ok |-> TRUE, val |-> v]
Err(e) == [ok |-> FALSE, err |-> e]

SeqsUpTo(S, n) == UNION {[1..k -> S] : k \in 0..n}

----------------------------------------------------------------------------
(* Built-in defaults (crate::util), as the flag documentation states them *)

DEFAULT_NATS_HOST == "127.0.0.1"
DEFAULT_NATS_PORT == "4222"
DEFAULT_LATTICE_PREFIX == "default"
DEFAULT_NATS_TIMEOUT == 2000

----------------------------------------------------------------------------
(* ctl_client_from_opts *)

\* load_context(&context): the context stored at the path, or an error
load_context(e, path) == e.files[path]

\* context_dir(None) followed by get_default_context(&ctx_dir).ok()
get_default_context(e) ==
    IF IsSome(e.context_dir) THEN e.default_context ELSE None

\* lines 900-906: the context used, None when none could be loaded
LoadCtx(opts, e) ==
    IF IsSome(opts.context)
    THEN load_context(e, Unwrap(opts.context))
    ELSE get_default_context(e)

timeout_CtxFirst(opts, c) ==
    IF IsSome(c) THEN Unwrap(c).ctl_timeout
    ELSE IF IsSome(opts.timeout_ms) THEN Unwrap(opts.timeout_ms)
    ELSE DEFAULT_NATS_TIMEOUT

timeout(opts, c) ==
    IF IsSome(opts.timeout_ms) THEN Unwrap(opts.timeout_ms)
    ELSE IF IsSome(c) THEN Unwrap(c).ctl_timeout
    ELSE DEFAULT_NATS_TIMEOUT

lattice_prefix(opts, c) ==
    IF IsSome(opts.lattice_prefix) THEN Unwrap(opts.lattice_prefix)
    ELSE IF IsSome(c) THEN Unwrap(c).ctl_lattice_prefix
    ELSE DEFAULT_LATTICE_PREFIX

ctl_host_PortDefault(opts, c) ==
    IF IsSome(opts.ctl_host) THEN Unwrap(opts.ctl_host)
    ELSE IF IsSome(c) THEN Unwrap(c).ctl_host
    ELSE DEFAULT_NATS_PORT

ctl_host(opts, c) ==
    IF IsSome(opts.ctl_host) THEN Unwrap(opts.ctl_host)
    ELSE IF IsSome(c) THEN Unwrap(c).ctl_host
    ELSE DEFAULT_NATS_HOST

ctl_port(opts, c) ==
    IF IsSome(opts.ctl_port) THEN Unwrap(opts.ctl_port)
    ELSE IF IsSome(c) THEN ToString(Unwrap(c).ctl_port)
    ELSE DEFAULT_NATS_PORT

ctl_jwt(opts, c) ==
    IF IsSome(opts.ctl_jwt) THEN opts.ctl_jwt
    ELSE IF IsSome(c) THEN Unwrap(c).ctl_jwt
    ELSE None

ctl_seed_FlagOnly(opts, c) == opts.ctl_seed

ctl_seed(opts, c) ==
    IF IsSome(opts.ctl_seed) THEN opts.ctl_seed
    ELSE IF IsSome(c) THEN Unwrap(c).ctl_seed
    ELSE None

ctl_credsfile(opts, c) ==
    IF IsSome(opts.ctl_credsfile) THEN opts.ctl_credsfile
    ELSE IF IsSome(c) THEN Unwrap(c).ctl_credsfile
    ELSE None

\* the connection parameters as they stand before the NATS connection is made
Resolve(opts, c) ==
    [timeout        |-> timeout(opts, c),
     lattice_prefix |-> lattice_prefix(opts, c),
     ctl_host       |-> ctl_host(opts, c),
     ctl_port       |-> ctl_port(opts, c),
     ctl_jwt        |-> ctl_jwt(opts, c),
     ctl_seed       |-> ctl_seed(opts, c),
     ctl_credsfile  |-> ctl_credsfile(opts, c)]

\* Duration::from_secs(n), in milliseconds
Duration_from_secs(n) == n * 1000

\* Duration::from_millis(n), in milliseconds
Duration_from_millis(n) == n

\* the error nats_client_from_opts returns when no connection can be made
NatsError == <<"nats connection failed">>

\* the error nats_client_from_opts returns for a jwt without a seed or a seed
\* without a jwt
ConfigError == <<"ctl_jwt and ctl_seed must be supplied together">>

\* nats_client_from_opts(&ctl_host, &ctl_port, ctl_jwt, ctl_seed, ctl_credsfile):
\* jwt and seed are required together; the pair is used when present,
\* otherwise the credentials file, otherwise no authentication
nats_client_from_opts(host_, port_, jwt, seed, credsfile, connected) ==
    IF IsSome(jwt) # IsSome(seed) THEN Err(ConfigError)
    ELSE IF ~connected THEN Err(NatsError)
    ELSE Ok([url  |-> <<host_, port_>>,
             auth |-> IF IsSome(jwt)
                      THEN [kind |-> "jwt", jwt |-> Unwrap(jwt),
                            seed |-> Unwrap(seed)]
                      ELSE IF IsSome(credsfile)
                      THEN [kind |-> "credsfile", path |-> Unwrap(credsfile)]
                      ELSE [kind |-> "none"]])

\* CtlClient::new(nc, Some(lattice_prefix), Duration::from_secs(timeout))
CtlClient_new(nc, r) ==
    [nc             |-> nc,
     lattice_prefix |-> Some(r.lattice_prefix),
     timeout        |-> Duration_from_secs(r.timeout)]

\* convert_error: the transport error as the command's error
convert_error(e) == <<e>>

----------------------------------------------------------------------------
(* Identifiers (ctl::id) and labels (crate::util) *)

ValidServerIds == {"NHOST1", "NHOST2"}

\* <ServerId as FromStr>::from_str
ServerId_from_str(s) ==
    IF s \in ValidServerIds
    THEN Ok([server_id |-> s])
    ELSE Err(<<"invalid server key: ", s>>)

\* <ServerId as Display>::to_string
ServerId_to_string(h) == h.server_id

\* the key=value strings that are well formed, with their key and value
LabelTable ==
    [c \in {"arch=x86_64", "os=linux", "arch"} |->
        CASE c = "arch=x86_64" -> Some(<<"arch", "x86_64">>)
          [] c = "os=linux"    -> Some(<<"os", "linux">>)
          [] OTHER             -> None]

RECURSIVE labels_fold(_, _)
labels_fold(v, acc) ==
    IF v = <<>> THEN Ok(acc)
    ELSE IF ~IsSome(LabelTable[Head(v)])
         THEN Err(<<"constraints must be key=value: ", Head(v)>>)
         ELSE LET kv == Unwrap(LabelTable[Head(v)])
              IN  labels_fold(Tail(v),
                     {p \in acc : p[1] # kv[1]} \cup {kv})

\* labels_vec_to_hashmap: the map of the key=value strings, or an error
labels_vec_to_hashmap(v) == labels_fold(v, {})

\* Option::unwrap_or_default
unwrap_or_default(o, d) == IF IsSome(o) THEN Unwrap(o) ELSE d

----------------------------------------------------------------------------
(* The control interface: requests and the responses they can get *)

\* the k-th request gets an accepted ack, a rejected ack or a transport error
AckResponses(k) ==
    {Ok([accepted |-> TRUE, error |-> ""]),
     Ok([accepted |-> FALSE, error |-> "nack" \o ToString(k)]),
     Err("timeout" \o ToString(k))}

AuctionHostIds == {"NHOST1", "NHOST2", "garbage"}

\* an auction gets the list of the hosts that answered, or a transport error
AuctionResponses(k) ==
    {Ok(l) : l \in SeqsUpTo([host_id : AuctionHostIds], MaxResponses)}
        \cup {Err("timeout" \o ToString(k))}

\* a query gets its answer or a transport error
QueryResponses(k) ==
    {Ok(<<>>), Err("timeout" \o ToString(k))}

\* client.<op>(..): the request goes out
Issue(c) ==
    /\ calls' = Append(calls, c)
    /\ inflight' = inflight \cup {Len(calls) + 1}

\* .await: the response of the oldest outstanding request comes back
Receive(r) ==
    /\ responses' = Append(responses, r)
    /\ inflight' = inflight \ {Len(responses) + 1}

----------------------------------------------------------------------------
(* Commands and environments *)

NoFlags ==
    [ctl_host |-> None, ctl_port |-> None, ctl_jwt |-> None, ctl_seed |-> None,
     ctl_credsfile |-> None, lattice_prefix |-> None, timeout_ms |-> None,
     context |-> None]

ContextPaths == {"ctx/prod.json", "ctx/missing.json"}

\* every combination of connection flags
AllFlags ==
    [ctl_host       : Option({"10.0.0.1"}),
     ctl_port       : Option({"5222"}),
     ctl_jwt        : Option({"flag.jwt"}),
     ctl_seed       : Option({"flag.seed"}),
     ctl_credsfile  : Option({"flag.creds"}),
     lattice_prefix : Option({"flaglattice"}),
     timeout_ms     : Option({500}),
     context        : Option(ContextPaths)]

\* the flags the start and apply commands are run with
FewFlags ==
    {[NoFlags EXCEPT !.timeout_ms = t] : t \in Option({500})}

\* the credentials a stored context can hold
CtxCreds ==
    {[ctl_jwt |-> None, ctl_seed |-> None, ctl_credsfile |-> None],
     [ctl_jwt |-> Some("ctx.jwt"), ctl_seed |-> Some("ctx.seed"), ctl_credsfile |-> None],
     [ctl_jwt |-> None, ctl_seed |-> Some("ctx.seed"), ctl_credsfile |-> None],
     [ctl_jwt |-> None, ctl_seed |-> None, ctl_credsfile |-> Some("ctx.creds")]}

\* the context stored at ctx/prod.json
FileContext(cr) ==
    [ctl_host |-> "prod.example", ctl_port |-> 4223,
     ctl_jwt |-> cr.ctl_jwt, ctl_seed |-> cr.ctl_seed,
     ctl_credsfile |-> cr.ctl_credsfile,
     ctl_lattice_prefix |-> "prodlattice", ctl_timeout |-> 3000]

\* the default context of the context directory
DefaultContext(cr) ==
    [ctl_host |-> "dev.example", ctl_port |-> 4224,
     ctl_jwt |-> cr.ctl_jwt, ctl_seed |-> cr.ctl_seed,
     ctl_credsfile |-> cr.ctl_credsfile,
     ctl_lattice_prefix |-> "devlattice", ctl_timeout |-> 7000]

\* context directory missing; present without a default; present with one
ContextDirs(cr) ==
    {[context_dir |-> None, default_context |-> None],
     [context_dir |-> Some("~/.wash/contexts"), default_context |-> None],
     [context_dir |-> Some("~/.wash/contexts"),
      default_context |-> Some(DefaultContext(cr))]}

Env(dir, cr, manifest) ==
    [context_dir     |-> dir.context_dir,
     default_context |-> dir.default_context,
     files           |-> [p \in ContextPaths |->
                            IF p = "ctx/prod.json" THEN Some(FileContext(cr))
                            ELSE None],
     manifest        |-> manifest]

NoCreds == [ctl_jwt |-> None, ctl_seed |-> None, ctl_credsfile |-> None]

Envs == UNION {{Env(d, cr, None) : d \in ContextDirs(cr)} : cr \in CtxCreds}

FewEnvs == {Env(d, NoCreds, None) : d \in ContextDirs(NoCreds)}

ActorRefs == {"ref-A", "ref-B"}

Capabilities ==
    {[image_ref |-> "ref-P", link_name |-> None],
     [image_ref |-> "ref-Q", link_name |-> Some("backend")]}

Links ==
    {[actor |-> "MACTOR", provider_id |-> "VPROV1",
      contract_id |-> "wasmcloud:provider", link_name |-> None, values |-> None],
     [actor |-> "MACTOR", provider_id |-> "VPROV2",
      contract_id |-> "wasmcloud:provider", link_name |-> Some("backend"),
      values |-> Some({<<"THING", "foo">>})]}

\* HostManifest values of at most MaxItems items
Manifests ==
    {m \in [actors       : SeqsUpTo(ActorRefs, MaxItems),
            capabilities : SeqsUpTo(Capabilities, MaxItems),
            links        : SeqsUpTo(Links, MaxItems)] :
        Len(m.actors) + Len(m.capabilities) + Len(m.links) <= MaxItems}

ServerIds == {[server_id |-> h] : h \in ValidServerIds}

ConstraintLists ==
    {<<"arch=x86_64">>, <<"arch">>, <<"os=linux", "arch=x86_64">>}

LinkQueryCommands ==
    [kind : {"link_query"}, opts : AllFlags]

StartActorCommands ==
    [kind : {"start_actor"}, opts : FewFlags, host_id : Option(ServerIds),
     actor_ref : {"ref-A"}, constraints : Option(ConstraintLists),
     auction_timeout_ms : Option({50})]

StartProviderCommands ==
    [kind : {"start_provider"}, opts : FewFlags, host_id : Option(ServerIds),
     provider_ref : {"ref-P"}, link_name : {"default"},
     constraints : Option(ConstraintLists),
     auction_timeout_ms : Option({50})]

ApplyCommands ==
    [kind : {"apply"}, opts : {NoFlags}, host_key : {[server_id |-> "NHOST1"]},
     path : {"manifest.yaml"}, expand_env : {FALSE}]

ModuleIds == {[module_id |-> "MACTOR"]}

ServiceIds == {[service_id |-> "VPROV1"]}

\* <ModuleId as Display>::to_string
ModuleId_to_string(m) == m.module_id

\* <ServiceId as Display>::to_string
ServiceId_to_string(p) == p.service_id

GetHostsCommands ==
    [kind : {"get_hosts"}, opts : FewFlags]

GetHostInventoryCommands ==
    [kind : {"get_host_inventory"}, opts : FewFlags,
     host_id : {[server_id |-> "NHOST1"]}]

GetClaimsCommands ==
    [kind : {"get_claims"}, opts : FewFlags]

LinkDelCommands ==
    [kind : {"link_del"}, opts : FewFlags, actor_id : ModuleIds,
     contract_id : {"wasmcloud:provider"}, link_name : Option({"backend"})]

LinkPutCommands ==
    [kind : {"link_put"}, opts : FewFlags, actor_id : ModuleIds,
     provider_id : ServiceIds, contract_id : {"wasmcloud:provider"},
     link_name : Option({"backend"}),
     values : {<<>>, <<"os=linux">>, <<"arch">>}]

StopProviderCommands ==
    [kind : {"stop_provider"}, opts : FewFlags,
     host_id : {[server_id |-> "NHOST1"]}, provider_id : ServiceIds,
     link_name : {"default"}, contract_id : {"wasmcloud:provider"}]

StopActorCommands ==
    [kind : {"stop_actor"}, opts : FewFlags,
     host_id : {[server_id |-> "NHOST1"]}, actor_id : ModuleIds, count : {1}]

StopHostCommands ==
    [kind : {"stop_host"}, opts : FewFlags,
     host_id : {[server_id |-> "NHOST1"]},
     host_shutdown_timeout : Option({3000})]

UpdateActorCommands ==
    [kind : {"update_actor"}, opts : FewFlags,
     host_id : {[server_id |-> "NHOST1"]}, actor_id : ModuleIds,
     new_actor_ref : {"ref-A2"}]

\* the commands that build a client and make one control call
SingleCallCommands ==
    GetHostsCommands \cup GetHostInventoryCommands \cup GetClaimsCommands
    \cup LinkDelCommands \cup LinkPutCommands \cup StopProviderCommands
    \cup StopActorCommands \cup StopHostCommands \cup UpdateActorCommands

----------------------------------------------------------------------------
(* Initial states: a command about to run *)

Init ==
    /\ \/ cmd \in LinkQueryCommands /\ env \in Envs
       \/ cmd \in StartActorCommands \cup StartProviderCommands /\ env \in FewEnvs
       \/ cmd \in SingleCallCommands /\ env \in FewEnvs
       \/ /\ cmd \in ApplyCommands
          /\ env \in {Env([context_dir |-> None, default_context |-> None],
                           NoCreds, m) : m \in Option(Manifests)}
    /\ pc = "client"
    /\ ctx = None
    /\ resolved = None
    /\ client = None
    /\ hm = None
    /\ idx = 0
    /\ results = <<>>
    /\ out = <<>>
    /\ suitable_hosts = None
    /\ host = None
    /\ calls = <<>>
    /\ inflight = {}
    /\ responses = <<>>
    /\ ret = None
    /\ handled = None

\* the command function returns r
Return(r) ==
    /\ ret' = Some(r)
    /\ pc' = "done"

----------------------------------------------------------------------------
(* ctl_client_from_opts, called first by every command function *)

start_actor_opts_NoOverride(c) == c.opts

\* start_actor: a missing timeout flag becomes 15000
start_actor_opts(c) ==
    IF ~IsSome(c.opts.timeout_ms)
    THEN [c.opts EXCEPT !.timeout_ms = Some(15000)]
    ELSE c.opts

\* start_provider: a missing timeout flag becomes 60000
start_provider_opts(c) ==
    IF ~IsSome(c.opts.timeout_ms)
    THEN [c.opts EXCEPT !.timeout_ms = Some(60000)]
    ELSE c.opts

\* the ConnectionOpts the command function hands to ctl_client_from_opts
opts_of(c) ==
    CASE c.kind = "start_actor"    -> start_actor_opts(c)
      [] c.kind = "start_provider" -> start_provider_opts(c)
      [] OTHER                     -> c.opts

\* where the command function goes on once it has its client
AfterClient(c) ==
    CASE c.kind = "link_query"     -> "link_query"
      [] c.kind = "start_actor"    -> "start_actor"
      [] c.kind = "start_provider" -> "start_provider"
      [] c.kind = "apply"          -> "apply_manifest"
      [] OTHER                     -> c.kind

\* let client = ctl_client_from_opts(opts).await?;
ctl_client_from_opts ==
    /\ pc = "client"
    /\ \E connected \in BOOLEAN :
        LET opts == opts_of(cmd)
            c    == LoadCtx(opts, env)
            r    == Resolve(opts, c)
            nc   == nats_client_from_opts(r.ctl_host, r.ctl_port, r.ctl_jwt,
                                          r.ctl_seed, r.ctl_credsfile, connected)
        IN  /\ ctx' = c
            /\ resolved' = Some(r)
            /\ IF nc.ok
               THEN /\ client' = Some(CtlClient_new(nc.val, r))
                    /\ pc' = AfterClient(cmd)
                    /\ ret' = ret
               ELSE /\ client' = None
                    /\ Return(Err(nc.err))
    /\ UNCHANGED <<cmd, env, handled, hm, idx, results, out, suitable_hosts, host,
                   calls, inflight, responses>>

----------------------------------------------------------------------------
(* link_query *)

link_query_issue ==
    /\ pc = "link_query"
    /\ Issue([op |-> "query_links"])
    /\ pc' = "link_query_await"
    /\ UNCHANGED <<cmd, env, handled, ctx, resolved, client, hm, idx, results, out,
                   suitable_hosts, host, responses, ret>>

link_query_await ==
    /\ pc = "link_query_await"
    /\ \E r \in QueryResponses(Len(responses) + 1) :
        /\ Receive(r)
        /\ Return(IF r.ok THEN Ok(r.val) ELSE Err(convert_error(r.err)))
    /\ UNCHANGED <<cmd, env, handled, ctx, resolved, client, hm, idx, results, out,
                   suitable_hosts, host, calls>>

----------------------------------------------------------------------------
(* start_actor and start_provider *)

explicit_host_Ignored(c) == None

\* match cmd.host_id: the host given with --host-id, if any
explicit_host(c) == c.host_id

auction_window_Secs(c) ==
    Duration_from_secs(unwrap_or_default(c.auction_timeout_ms,
                                         DEFAULT_NATS_TIMEOUT))

\* Duration::from_millis(cmd.auction_timeout_ms.unwrap_or(DEFAULT_NATS_TIMEOUT))
auction_window(c) ==
    Duration_from_millis(unwrap_or_default(c.auction_timeout_ms,
                                           DEFAULT_NATS_TIMEOUT))

\* labels_vec_to_hashmap(cmd.constraints.unwrap_or_default())
constraint_labels(c) ==
    labels_vec_to_hashmap(unwrap_or_default(c.constraints, <<>>))

actor_host_of_auction_Last(c, hosts) ==
    IF hosts = <<>>
    THEN Err(<<"No suitable hosts found for actor ", c.actor_ref>>)
    ELSE ServerId_from_str(hosts[Len(hosts)].host_id)

\* start_actor: the host taken from the auction's answer, or the error
actor_host_of_auction(c, hosts) ==
    IF hosts = <<>>
    THEN Err(<<"No suitable hosts found for actor ", c.actor_ref>>)
    ELSE ServerId_from_str(hosts[1].host_id)

provider_host_of_auction_Fallback(c, hosts) ==
    IF hosts = <<>>
    THEN Ok([server_id |-> "NHOST1"])
    ELSE ServerId_from_str(hosts[1].host_id)

\* start_provider: the host taken from the auction's answer, or the error
provider_host_of_auction(c, hosts) ==
    IF hosts = <<>>
    THEN Err(<<"No suitable hosts found for provider ", c.provider_ref>>)
    ELSE ServerId_from_str(hosts[1].host_id)

\* start_actor: the match on cmd.host_id, up to the auction request
start_actor_placement ==
    /\ pc = "start_actor"
    /\ IF IsSome(explicit_host(cmd))
       THEN /\ host' = explicit_host(cmd)
            /\ pc' = "start_actor_start"
            /\ UNCHANGED <<calls, inflight, ret>>
       ELSE LET labels == constraint_labels(cmd)
            IN  IF ~labels.ok
                THEN /\ Return(Err(labels.err))
                     /\ UNCHANGED <<host, calls, inflight>>
                ELSE /\ Issue([op |-> "perform_actor_auction",
                               actor_ref |-> cmd.actor_ref,
                               constraints |-> labels.val,
                               timeout |-> auction_window(cmd)])
                     /\ pc' = "start_actor_auction"
                     /\ UNCHANGED <<host, ret>>
    /\ UNCHANGED <<cmd, env, handled, ctx, resolved, client, hm, idx, results, out,
                   suitable_hosts, responses>>

start_actor_auction_IgnoreError ==
    /\ pc = "start_actor_auction"
    /\ \E r \in AuctionResponses(Len(responses) + 1) :
        /\ Receive(r)
        /\ IF ~r.ok
           THEN /\ host' = Some([server_id |-> "NHOST1"])
                /\ pc' = "start_actor_start"
                /\ UNCHANGED <<suitable_hosts, ret>>
           ELSE LET h == actor_host_of_auction(cmd, r.val)
                IN  /\ suitable_hosts' = Some(r.val)
                    /\ IF h.ok
                       THEN /\ host' = Some(h.val)
                            /\ pc' = "start_actor_start"
                            /\ ret' = ret
                       ELSE /\ Return(Err(h.err))
                            /\ host' = host
    /\ UNCHANGED <<cmd, env, handled, ctx, resolved, client, hm, idx, results, out,
                   calls>>

\* start_actor: the auction's answer arrives and a host is taken from it
start_actor_auction ==
    /\ pc = "start_actor_auction"
    /\ \E r \in AuctionResponses(Len(responses) + 1) :
        /\ Receive(r)
        /\ IF ~r.ok
           THEN /\ Return(Err(convert_error(r.err)))
                /\ UNCHANGED <<suitable_hosts, host>>
           ELSE LET h == actor_host_of_auction(cmd, r.val)
                IN  /\ suitable_hosts' = Some(r.val)
                    /\ IF h.ok
                       THEN /\ host' = Some(h.val)
                            /\ pc' = "start_actor_start"
                            /\ ret' = ret
                       ELSE /\ Return(Err(h.err))
                            /\ host' = host
    /\ UNCHANGED <<cmd, env, handled, ctx, resolved, client, hm, idx, results, out,
                   calls>>

\* client.start_actor(&host.to_string(), &cmd.actor_ref, None)
start_actor_issue ==
    /\ pc = "start_actor_start"
    /\ Issue([op |-> "start_actor",
              host_id |-> ServerId_to_string(Unwrap(host)),
              actor_ref |-> cmd.actor_ref,
              annotations |-> None])
    /\ pc' = "start_actor_await"
    /\ UNCHANGED <<cmd, env, handled, ctx, resolved, client, hm, idx, results, out,
                   suitable_hosts, host, responses, ret>>

\* .await.map_err(convert_error)
start_actor_await ==
    /\ pc = "start_actor_await"
    /\ \E r \in AckResponses(Len(responses) + 1) :
        /\ Receive(r)
        /\ Return(IF r.ok THEN Ok(r.val) ELSE Err(convert_error(r.err)))
    /\ UNCHANGED <<cmd, env, handled, ctx, resolved, client, hm, idx, results, out,
                   suitable_hosts, host, calls>>

\* start_provider: the match on cmd.host_id, up to the auction request
start_provider_placement ==
    /\ pc = "start_provider"
    /\ IF IsSome(explicit_host(cmd))
       THEN /\ host' = explicit_host(cmd)
            /\ pc' = "start_provider_start"
            /\ UNCHANGED <<calls, inflight, ret>>
       ELSE LET labels == constraint_labels(cmd)
            IN  IF ~labels.ok
                THEN /\ Return(Err(labels.err))
                     /\ UNCHANGED <<host, calls, inflight>>
                ELSE /\ Issue([op |-> "perform_provider_auction",
                               provider_ref |-> cmd.provider_ref,
                               link_name |-> cmd.link_name,
                               constraints |-> labels.val,
                               timeout |-> auction_window(cmd)])
                     /\ pc' = "start_provider_auction"
                     /\ UNCHANGED <<host, ret>>
    /\ UNCHANGED <<cmd, env, handled, ctx, resolved, client, hm, idx, results, out,
                   suitable_hosts, responses>>

start_provider_auction_SkipInvalid ==
    /\ pc = "start_provider_auction"
    /\ \E r \in AuctionResponses(Len(responses) + 1) :
        /\ Receive(r)
        /\ IF ~r.ok
           THEN /\ Return(Err(convert_error(r.err)))
                /\ UNCHANGED <<suitable_hosts, host>>
           ELSE LET first == provider_host_of_auction(cmd, r.val)
                    h == IF ~first.ok /\ Len(r.val) > 1
                         THEN ServerId_from_str(r.val[2].host_id)
                         ELSE first
                IN  /\ suitable_hosts' = Some(r.val)
                    /\ IF h.ok
                       THEN /\ host' = Some(h.val)
                            /\ pc' = "start_provider_start"
                            /\ ret' = ret
                       ELSE /\ Return(Err(h.err))
                            /\ host' = host
    /\ UNCHANGED <<cmd, env, handled, ctx, resolved, client, hm, idx, results, out,
                   calls>>

\* start_provider: the auction's answer arrives and a host is taken from it
start_provider_auction ==
    /\ pc = "start_provider_auction"
    /\ \E r \in AuctionResponses(Len(responses) + 1) :
        /\ Receive(r)
        /\ IF ~r.ok
           THEN /\ Return(Err(convert_error(r.err)))
                /\ UNCHANGED <<suitable_hosts, host>>
           ELSE LET h == provider_host_of_auction(cmd, r.val)
                IN  /\ suitable_hosts' = Some(r.val)
                    /\ IF h.ok
                       THEN /\ host' = Some(h.val)
                            /\ pc' = "start_provider_start"
                            /\ ret' = ret
                       ELSE /\ Return(Err(h.err))
                            /\ host' = host
    /\ UNCHANGED <<cmd, env, handled, ctx, resolved, client, hm, idx, results, out,
                   calls>>

\* client.start_provider(&host.to_string(), &cmd.provider_ref,
\*                       Some(cmd.link_name), None, None)
start_provider_issue ==
    /\ pc = "start_provider_start"
    /\ Issue([op |-> "start_provider",
              host_id |-> ServerId_to_string(Unwrap(host)),
              provider_ref |-> cmd.provider_ref,
              link_name |-> Some(cmd.link_name),
              annotations |-> None,
              provider_configuration |-> None])
    /\ pc' = "start_provider_await"
    /\ UNCHANGED <<cmd, env, handled, ctx, resolved, client, hm, idx, results, out,
                   suitable_hosts, host, responses, ret>>

\* .await.map_err(convert_error)
start_provider_await ==
    /\ pc = "start_provider_await"
    /\ \E r \in AckResponses(Len(responses) + 1) :
        /\ Receive(r)
        /\ Return(IF r.ok THEN Ok(r.val) ELSE Err(convert_error(r.err)))
    /\ UNCHANGED <<cmd, env, handled, ctx, resolved, client, hm, idx, results, out,
                   suitable_hosts, host, calls>>

----------------------------------------------------------------------------
(* apply_manifest *)

actor_outcome_AckNotInspected(actor, r) ==
    IF r.ok
    THEN <<"Instruction to start actor ", actor, " acknowledged.">>
    ELSE <<"Failed to send start actor: ", r.err>>

\* the result string of one actor of the manifest
actor_outcome(actor, r) ==
    IF r.ok
    THEN IF r.val.accepted
         THEN <<"Instruction to start actor ", actor, " acknowledged.">>
         ELSE <<"Instruction to start actor ", actor, " not acked: ",
                r.val.error>>
    ELSE <<"Failed to send start actor: ", r.err>>

\* the result string of one capability of the manifest
provider_outcome(cap, r) ==
    IF r.ok
    THEN IF r.val.accepted
         THEN <<"Instruction to start provider ", cap.image_ref,
                " acknowledged.">>
         ELSE <<"Instruction to start provider ", cap.image_ref,
                " not acked: ", r.val.error>>
    ELSE <<"Failed to send start capability message: ", r.err>>

\* the result string of one link of the manifest
linkdef_outcome(ld, r) ==
    IF r.ok
    THEN IF r.val.accepted
         THEN <<"Link def submission from ", ld.actor, " to ", ld.provider_id,
                " acknowledged.">>
         ELSE <<"Link def submission from ", ld.actor, " to ", ld.provider_id,
                " not acked: ", r.val.error>>
    ELSE <<"Failed to send link def: ", r.err>>

next_phase_LinksFirst(p) ==
    CASE p = "load"      -> "actors"
      [] p = "actors"    -> "links"
      [] p = "links"     -> "providers"
      [] p = "providers" -> "done"

\* the order of the three calls of apply_manifest, and its return
next_phase(p) ==
    CASE p = "load"      -> "actors"
      [] p = "actors"    -> "providers"
      [] p = "providers" -> "links"
      [] p = "links"     -> "done"

\* Ok(results) of a loop, appended by results.extend_from_slice(..)
phase_return(p) ==
    /\ out' = out \o results
    /\ results' = <<>>
    /\ idx' = 1
    /\ IF next_phase(p) = "done"
       THEN Return(Ok(out \o results))
       ELSE /\ pc' = next_phase(p)
            /\ ret' = ret

\* HostManifest::from_path(Path::new(&cmd.path), cmd.expand_env)
apply_manifest_load ==
    /\ pc = "apply_manifest"
    /\ IF IsSome(env.manifest)
       THEN /\ hm' = env.manifest
            /\ idx' = 1
            /\ pc' = next_phase("load")
            /\ ret' = ret
       ELSE /\ Return(Err(<<"Failed to load manifest: ", cmd.path>>))
            /\ UNCHANGED <<hm, idx>>
    /\ UNCHANGED <<cmd, env, handled, ctx, resolved, client, results, out,
                   suitable_hosts, host, calls, inflight, responses>>

apply_manifest_actors_issue_NoAwait ==
    /\ pc = "actors"
    /\ idx <= Len(Unwrap(hm).actors)
    /\ Issue([op |-> "start_actor",
              host_id |-> ServerId_to_string(cmd.host_key),
              actor_ref |-> Unwrap(hm).actors[idx],
              annotations |-> None])
    /\ idx' = idx + 1
    /\ UNCHANGED <<cmd, env, handled, pc, ctx, resolved, client, hm, results, out,
                   suitable_hosts, host, responses, ret>>

\* client.start_actor(&host_id.to_string(), actor, None)
apply_manifest_actors_issue ==
    /\ pc = "actors"
    /\ idx <= Len(Unwrap(hm).actors)
    /\ Issue([op |-> "start_actor",
              host_id |-> ServerId_to_string(cmd.host_key),
              actor_ref |-> Unwrap(hm).actors[idx],
              annotations |-> None])
    /\ pc' = "actors_await"
    /\ UNCHANGED <<cmd, env, handled, ctx, resolved, client, hm, idx, results, out,
                   suitable_hosts, host, responses, ret>>

apply_manifest_actors_await_Bail ==
    /\ pc = "actors_await"
    /\ \E r \in AckResponses(Len(responses) + 1) :
        /\ Receive(r)
        /\ IF r.ok
           THEN /\ results' = Append(results,
                                     actor_outcome(Unwrap(hm).actors[idx], r))
                /\ idx' = idx + 1
                /\ pc' = "actors"
                /\ ret' = ret
           ELSE /\ Return(Err(convert_error(r.err)))
                /\ UNCHANGED <<results, idx>>
    /\ UNCHANGED <<cmd, env, handled, ctx, resolved, client, hm, out,
                   suitable_hosts, host, calls>>

\* .await and the match on its result
apply_manifest_actors_await ==
    /\ pc = "actors_await"
    /\ \E r \in AckResponses(Len(responses) + 1) :
        /\ Receive(r)
        /\ results' = Append(results, actor_outcome(Unwrap(hm).actors[idx], r))
    /\ idx' = idx + 1
    /\ pc' = "actors"
    /\ UNCHANGED <<cmd, env, handled, ctx, resolved, client, hm, out,
                   suitable_hosts, host, calls, ret>>

\* the loop over hm.actors is over
apply_manifest_actors_return ==
    /\ pc = "actors"
    /\ idx > Len(Unwrap(hm).actors)
    /\ phase_return("actors")
    /\ UNCHANGED <<cmd, env, handled, ctx, resolved, client, hm,
                   suitable_hosts, host, calls, inflight, responses>>

\* client.start_provider(&host_id.to_string(), &cap.image_ref,
\*                       cap.link_name.clone(), None, None)
apply_manifest_providers_issue ==
    /\ pc = "providers"
    /\ idx <= Len(Unwrap(hm).capabilities)
    /\ Issue([op |-> "start_provider",
              host_id |-> ServerId_to_string(cmd.host_key),
              provider_ref |-> Unwrap(hm).capabilities[idx].image_ref,
              link_name |-> Unwrap(hm).capabilities[idx].link_name,
              annotations |-> None,
              provider_configuration |-> None])
    /\ pc' = "providers_await"
    /\ UNCHANGED <<cmd, env, handled, ctx, resolved, client, hm, idx, results, out,
                   suitable_hosts, host, responses, ret>>

apply_manifest_providers_await_Abort ==
    /\ pc = "providers_await"
    /\ \E r \in AckResponses(Len(responses) + 1) :
        /\ Receive(r)
        /\ results' = Append(results,
                             provider_outcome(Unwrap(hm).capabilities[idx], r))
        /\ IF r.ok /\ r.val.accepted
           THEN pc' = "providers" /\ ret' = ret /\ out' = out
           ELSE /\ out' = out \o results'
                /\ Return(Ok(out'))
    /\ idx' = idx + 1
    /\ UNCHANGED <<cmd, env, handled, ctx, resolved, client, hm,
                   suitable_hosts, host, calls>>

\* .await and the match on its result
apply_manifest_providers_await ==
    /\ pc = "providers_await"
    /\ \E r \in AckResponses(Len(responses) + 1) :
        /\ Receive(r)
        /\ results' = Append(results,
                             provider_outcome(Unwrap(hm).capabilities[idx], r))
    /\ idx' = idx + 1
    /\ pc' = "providers"
    /\ ret' = ret
    /\ out' = out
    /\ UNCHANGED <<cmd, env, handled, ctx, resolved, client, hm,
                   suitable_hosts, host, calls>>

\* the loop over hm.capabilities is over
apply_manifest_providers_return ==
    /\ pc = "providers"
    /\ idx > Len(Unwrap(hm).capabilities)
    /\ phase_return("providers")
    /\ UNCHANGED <<cmd, env, handled, ctx, resolved, client, hm,
                   suitable_hosts, host, calls, inflight, responses>>

linkdef_link_name_Empty(ld) == unwrap_or_default(ld.link_name, "")

\* ld.link_name.as_ref().unwrap_or(&"default".to_string())
linkdef_link_name(ld) == unwrap_or_default(ld.link_name, "default")

\* client.advertise_link(&ld.actor, &ld.provider_id, &ld.contract_id,
\*                       link name, ld.values.clone().unwrap_or_default())
apply_manifest_linkdefs_issue ==
    /\ pc = "links"
    /\ idx <= Len(Unwrap(hm).links)
    /\ LET ld == Unwrap(hm).links[idx]
       IN  Issue([op |-> "advertise_link",
                  actor_id |-> ld.actor,
                  provider_id |-> ld.provider_id,
                  contract_id |-> ld.contract_id,
                  link_name |-> linkdef_link_name(ld),
                  values |-> unwrap_or_default(ld.values, {})])
    /\ pc' = "links_await"
    /\ UNCHANGED <<cmd, env, handled, ctx, resolved, client, hm, idx, results, out,
                   suitable_hosts, host, responses, ret>>

apply_manifest_linkdefs_await_Retry ==
    /\ pc = "links_await"
    /\ \E r \in AckResponses(Len(responses) + 1) :
        /\ Receive(r)
        /\ IF r.ok
           THEN /\ results' = Append(results,
                                     linkdef_outcome(Unwrap(hm).links[idx], r))
                /\ idx' = idx + 1
           ELSE UNCHANGED <<results, idx>>
    /\ pc' = "links"
    /\ UNCHANGED <<cmd, env, handled, ctx, resolved, client, hm, out,
                   suitable_hosts, host, calls, ret>>

\* .await and the match on its result
apply_manifest_linkdefs_await ==
    /\ pc = "links_await"
    /\ \E r \in AckResponses(Len(responses) + 1) :
        /\ Receive(r)
        /\ results' = Append(results, linkdef_outcome(Unwrap(hm).links[idx], r))
        /\ idx' = idx + 1
    /\ pc' = "links"
    /\ UNCHANGED <<cmd, env, handled, ctx, resolved, client, hm, out,
                   suitable_hosts, host, calls, ret>>

\* the loop over hm.links is over
apply_manifest_linkdefs_return ==
    /\ pc = "links"
    /\ idx > Len(Unwrap(hm).links)
    /\ phase_return("links")
    /\ UNCHANGED <<cmd, env, handled, ctx, resolved, client, hm,
                   suitable_hosts, host, calls, inflight, responses>>

----------------------------------------------------------------------------
(* The commands that make one control call *)

\* get_hosts: the timeout of the query is the flag or the default
get_hosts_issue ==
    /\ pc = "get_hosts"
    /\ Issue([op |-> "get_hosts",
           timeout |-> Duration_from_millis(
                          unwrap_or_default(cmd.opts.timeout_ms,
                                            DEFAULT_NATS_TIMEOUT))])
    /\ pc' = "get_hosts_await"
    /\ UNCHANGED <<cmd, env, handled, ctx, resolved, client, hm, idx, results,
                   out, suitable_hosts, host, responses, ret>>

get_hosts_await ==
    /\ pc = "get_hosts_await"
    /\ \E r \in QueryResponses(Len(responses) + 1) :
        /\ Receive(r)
        /\ Return(IF r.ok THEN Ok(r.val) ELSE Err(convert_error(r.err)))
    /\ UNCHANGED <<cmd, env, handled, ctx, resolved, client, hm, idx, results,
                   out, suitable_hosts, host, calls>>

get_host_inventory_issue ==
    /\ pc = "get_host_inventory"
    /\ Issue([op |-> "get_host_inventory",
           host_id |-> ServerId_to_string(cmd.host_id)])
    /\ pc' = "get_host_inventory_await"
    /\ UNCHANGED <<cmd, env, handled, ctx, resolved, client, hm, idx, results,
                   out, suitable_hosts, host, responses, ret>>

get_host_inventory_await ==
    /\ pc = "get_host_inventory_await"
    /\ \E r \in QueryResponses(Len(responses) + 1) :
        /\ Receive(r)
        /\ Return(IF r.ok THEN Ok(r.val) ELSE Err(convert_error(r.err)))
    /\ UNCHANGED <<cmd, env, handled, ctx, resolved, client, hm, idx, results,
                   out, suitable_hosts, host, calls>>

get_claims_issue ==
    /\ pc = "get_claims"
    /\ Issue([op |-> "get_claims"])
    /\ pc' = "get_claims_await"
    /\ UNCHANGED <<cmd, env, handled, ctx, resolved, client, hm, idx, results,
                   out, suitable_hosts, host, responses, ret>>

get_claims_await ==
    /\ pc = "get_claims_await"
    /\ \E r \in QueryResponses(Len(responses) + 1) :
        /\ Receive(r)
        /\ Return(IF r.ok THEN Ok(r.val) ELSE Err(convert_error(r.err)))
    /\ UNCHANGED <<cmd, env, handled, ctx, resolved, client, hm, idx, results,
                   out, suitable_hosts, host, calls>>

\* cmd.link_name.unwrap_or_else(|| "default".to_string())
link_name_or_default(o) == unwrap_or_default(o, "default")

link_del_issue ==
    /\ pc = "link_del"
    /\ Issue([op |-> "remove_link",
           actor_id |-> ModuleId_to_string(cmd.actor_id),
           contract_id |-> cmd.contract_id,
           link_name |-> link_name_or_default(cmd.link_name)])
    /\ pc' = "link_del_await"
    /\ UNCHANGED <<cmd, env, handled, ctx, resolved, client, hm, idx, results,
                   out, suitable_hosts, host, responses, ret>>

link_del_await ==
    /\ pc = "link_del_await"
    /\ \E r \in AckResponses(Len(responses) + 1) :
        /\ Receive(r)
        /\ Return(IF r.ok THEN Ok(r.val) ELSE Err(convert_error(r.err)))
    /\ UNCHANGED <<cmd, env, handled, ctx, resolved, client, hm, idx, results,
                   out, suitable_hosts, host, calls>>

\* link_put: labels_vec_to_hashmap(cmd.values)? comes before the request
link_put_issue ==
    /\ pc = "link_put"
    /\ LET labels == labels_vec_to_hashmap(cmd.values)
       IN  IF ~labels.ok
           THEN /\ Return(Err(labels.err))
                /\ UNCHANGED <<calls, inflight>>
           ELSE /\ Issue([op |-> "advertise_link",
                          actor_id |-> ModuleId_to_string(cmd.actor_id),
                          provider_id |-> ServiceId_to_string(cmd.provider_id),
                          contract_id |-> cmd.contract_id,
                          link_name |-> link_name_or_default(cmd.link_name),
                          values |-> labels.val])
                /\ pc' = "link_put_await"
                /\ ret' = ret
    /\ UNCHANGED <<cmd, env, handled, ctx, resolved, client, hm, idx, results,
                   out, suitable_hosts, host, responses>>

link_put_await ==
    /\ pc = "link_put_await"
    /\ \E r \in AckResponses(Len(responses) + 1) :
        /\ Receive(r)
        /\ Return(IF r.ok THEN Ok(r.val) ELSE Err(convert_error(r.err)))
    /\ UNCHANGED <<cmd, env, handled, ctx, resolved, client, hm, idx, results,
                   out, suitable_hosts, host, calls>>

stop_provider_issue ==
    /\ pc = "stop_provider"
    /\ Issue([op |-> "stop_provider",
           host_id |-> ServerId_to_string(cmd.host_id),
           provider_id |-> ServiceId_to_string(cmd.provider_id),
           link_name |-> cmd.link_name,
           contract_id |-> cmd.contract_id,
           annotations |-> None])
    /\ pc' = "stop_provider_await"
    /\ UNCHANGED <<cmd, env, handled, ctx, resolved, client, hm, idx, results,
                   out, suitable_hosts, host, responses, ret>>

stop_provider_await ==
    /\ pc = "stop_provider_await"
    /\ \E r \in AckResponses(Len(responses) + 1) :
        /\ Receive(r)
        /\ Return(IF r.ok THEN Ok(r.val) ELSE Err(convert_error(r.err)))
    /\ UNCHANGED <<cmd, env, handled, ctx, resolved, client, hm, idx, results,
                   out, suitable_hosts, host, calls>>

stop_actor_issue ==
    /\ pc = "stop_actor"
    /\ Issue([op |-> "stop_actor",
           host_id |-> ServerId_to_string(cmd.host_id),
           actor_id |-> ModuleId_to_string(cmd.actor_id),
           count |-> cmd.count,
           annotations |-> None])
    /\ pc' = "stop_actor_await"
    /\ UNCHANGED <<cmd, env, handled, ctx, resolved, client, hm, idx, results,
                   out, suitable_hosts, host, responses, ret>>

stop_actor_await ==
    /\ pc = "stop_actor_await"
    /\ \E r \in AckResponses(Len(responses) + 1) :
        /\ Receive(r)
        /\ Return(IF r.ok THEN Ok(r.val) ELSE Err(convert_error(r.err)))
    /\ UNCHANGED <<cmd, env, handled, ctx, resolved, client, hm, idx, results,
                   out, suitable_hosts, host, calls>>

stop_host_issue ==
    /\ pc = "stop_host"
    /\ Issue([op |-> "stop_host",
           host_id |-> ServerId_to_string(cmd.host_id),
           timeout |-> cmd.host_shutdown_timeout])
    /\ pc' = "stop_host_await"
    /\ UNCHANGED <<cmd, env, handled, ctx, resolved, client, hm, idx, results,
                   out, suitable_hosts, host, responses, ret>>

stop_host_await ==
    /\ pc = "stop_host_await"
    /\ \E r \in AckResponses(Len(responses) + 1) :
        /\ Receive(r)
        /\ Return(IF r.ok THEN Ok(r.val) ELSE Err(convert_error(r.err)))
    /\ UNCHANGED <<cmd, env, handled, ctx, resolved, client, hm, idx, results,
                   out, suitable_hosts, host, calls>>

update_actor_issue ==
    /\ pc = "update_actor"
    /\ Issue([op |-> "update_actor",
           host_id |-> ServerId_to_string(cmd.host_id),
           actor_id |-> ModuleId_to_string(cmd.actor_id),
           new_actor_ref |-> cmd.new_actor_ref,
           annotations |-> None])
    /\ pc' = "update_actor_await"
    /\ UNCHANGED <<cmd, env, handled, ctx, resolved, client, hm, idx, results,
                   out, suitable_hosts, host, responses, ret>>

update_actor_await ==
    /\ pc = "update_actor_await"
    /\ \E r \in AckResponses(Len(responses) + 1) :
        /\ Receive(r)
        /\ Return(IF r.ok THEN Ok(r.val) ELSE Err(convert_error(r.err)))
    /\ UNCHANGED <<cmd, env, handled, ctx, resolved, client, hm, idx, results,
                   out, suitable_hosts, host, calls>>

----------------------------------------------------------------------------
(* handle_command: what becomes of the command function's result *)

\* the commands whose result is a CtlOperationAck given to ctl_operation_output
AckCommands ==
    {"start_actor", "start_provider", "stop_actor", "stop_provider",
     "stop_host", "update_actor"}

\* the success message handle_command gives to ctl_operation_output
success_message(c) ==
    CASE c.kind = "start_actor" ->
            <<"Actor ", c.actor_ref, " started successfully">>
      [] c.kind = "start_provider" ->
            <<"Provider ", c.provider_ref, " started successfully">>
      [] c.kind = "stop_actor" ->
            <<"Actor ", ModuleId_to_string(c.actor_id), " stopped successfully">>
      [] c.kind = "stop_provider" ->
            <<"Provider ", ServiceId_to_string(c.provider_id),
              " stopped successfully">>
      [] c.kind = "stop_host" ->
            <<"Host ", ServerId_to_string(c.host_id),
              " acknowledged stop request">>
      [] c.kind = "update_actor" ->
            <<"Actor ", ModuleId_to_string(c.actor_id), " updated to ",
              c.new_actor_ref>>

\* ctl_operation_output(ack.accepted, &success, &ack.error, &output.kind)
ctl_operation_output(accepted, success, error) ==
    [fn |-> "ctl_operation_output", accepted |-> accepted,
     success |-> success, error |-> error]

\* .map_or_else(|e| Some(format!("{}", e)), |_| None)
link_failure(r) ==
    IF r.ok THEN None ELSE Some(r.err)

\* the name of the output function of a query command
query_output(c) ==
    CASE c.kind = "get_hosts"          -> "get_hosts_output"
      [] c.kind = "get_host_inventory" -> "get_host_inventory_output"
      [] c.kind = "get_claims"         -> "get_claims_output"
      [] c.kind = "link_query"         -> "link_query_output"
      [] c.kind = "apply"              -> "apply_manifest_output"

handle_command_out_AckErrorOk(c, r) ==
    CASE c.kind = "link_del" ->
            Ok([fn |-> "link_del_output",
                actor_id |-> c.actor_id, contract_id |-> c.contract_id,
                link_name |-> link_name_or_default(c.link_name),
                failure |-> link_failure(r)])
      [] c.kind = "link_put" ->
            Ok([fn |-> "link_put_output",
                actor_id |-> c.actor_id, provider_id |-> c.provider_id,
                failure |-> link_failure(r)])
      [] c.kind \in AckCommands ->
            IF r.ok
            THEN Ok(ctl_operation_output(r.val.accepted, success_message(c),
                                         r.val.error))
            ELSE Ok(ctl_operation_output(FALSE, success_message(c), ""))
      [] OTHER ->
            IF r.ok
            THEN Ok([fn |-> query_output(c), value |-> r.val])
            ELSE Err(r.err)

\* the match of handle_command: `?` on the command function's result, except
\* for link del and link put, and the output function on its value
handle_command_out(c, r) ==
    CASE c.kind = "link_del" ->
            Ok([fn |-> "link_del_output",
                actor_id |-> c.actor_id, contract_id |-> c.contract_id,
                link_name |-> link_name_or_default(c.link_name),
                failure |-> link_failure(r)])
      [] c.kind = "link_put" ->
            Ok([fn |-> "link_put_output",
                actor_id |-> c.actor_id, provider_id |-> c.provider_id,
                failure |-> link_failure(r)])
      [] c.kind \in AckCommands ->
            IF r.ok
            THEN Ok(ctl_operation_output(r.val.accepted, success_message(c),
                                         r.val.error))
            ELSE Err(r.err)
      [] OTHER ->
            IF r.ok
            THEN Ok([fn |-> query_output(c), value |-> r.val])
            ELSE Err(r.err)

\* handle_command returns Ok(out), or the error `?` passed on
handle_command_return ==
    /\ pc = "done"
    /\ handled' = Some(handle_command_out(cmd, Unwrap(ret)))
    /\ pc' = "exit"
    /\ UNCHANGED <<cmd, env, ctx, resolved, client, hm, idx, results, out,
                   suitable_hosts, host, calls, inflight, responses, ret>>

----------------------------------------------------------------------------
(* The specification *)

Next ==
    \/ ctl_client_from_opts
    \/ link_query_issue
    \/ link_query_await
    \/ start_actor_placement
    \/ start_actor_auction
    \/ start_actor_issue
    \/ start_actor_await
    \/ start_provider_placement
    \/ start_provider_auction
    \/ start_provider_issue
    \/ start_provider_await
    \/ apply_manifest_load
    \/ apply_manifest_actors_issue
    \/ apply_manifest_actors_await
    \/ apply_manifest_actors_return
    \/ apply_manifest_providers_issue
    \/ apply_manifest_providers_await
    \/ apply_manifest_providers_return
    \/ apply_manifest_linkdefs_issue
    \/ apply_manifest_linkdefs_await
    \/ apply_manifest_linkdefs_return
    \/ get_hosts_issue
    \/ get_hosts_await
    \/ get_host_inventory_issue
    \/ get_host_inventory_await
    \/ get_claims_issue
    \/ get_claims_await
    \/ link_del_issue
    \/ link_del_await
    \/ link_put_issue
    \/ link_put_await
    \/ stop_provider_issue
    \/ stop_provider_await
    \/ stop_actor_issue
    \/ stop_actor_await
    \/ stop_host_issue
    \/ stop_host_await
    \/ update_actor_issue
    \/ update_actor_await
    \/ handle_command_return

Spec == Init /\ [][Next]_vars

\* the command is one sequential task that the runtime drives to its end, and
\* every control call that was made returns
FairSpec == Init /\ [][Next]_vars /\ WF_vars(Next)

----------------------------------------------------------------------------
(* Vocabulary of the properties *)

Range(q) == {q[i] : i \in DOMAIN q}

IsPrefix(p, q) ==
    /\ Len(p) <= Len(q)
    /\ \A i \in 1..Len(p) : p[i] = q[i]

IsApply == cmd.kind = "apply"

IsStart == cmd.kind \in {"start_actor", "start_provider"}

StartOps == {"start_actor", "start_provider"}

\* the operation and the manifest item a request of apply_manifest is for
ItemOfCall(c) ==
    CASE c.op = "start_actor"    -> <<c.op, c.actor_ref>>
      [] c.op = "start_provider" -> <<c.op, c.provider_ref>>
      [] c.op = "advertise_link" -> <<c.op, c.actor_id, c.provider_id>>
      [] OTHER                   -> <<c.op>>

\* the operations a manifest asks for, in the order the design fixes
ExpectedItems(m) ==
    [i \in 1..Len(m.actors) |-> <<"start_actor", m.actors[i]>>]
    \o [i \in 1..Len(m.capabilities) |->
           <<"start_provider", m.capabilities[i].image_ref>>]
    \o [i \in 1..Len(m.links) |->
           <<"advertise_link", m.links[i].actor, m.links[i].provider_id>>]

NItems(m) == Len(m.actors) + Len(m.capabilities) + Len(m.links)

CountOp(op) == Cardinality({i \in DOMAIN calls : calls[i].op = op})

\* the response is a transport error or an ack with accepted = false
Failed(r) == ~r.ok \/ ~r.val.accepted

\* the failure description of a failed response
FailureText(r) == IF r.ok THEN r.val.error ELSE r.err

\* the result string says the operation was acknowledged
MarkedAcknowledged(o) == o[Len(o)] = " acknowledged."

\* the operation a result string is about
OutcomeOp(o) ==
    CASE o[1] \in {"Instruction to start actor ",
                   "Failed to send start actor: "} -> "start_actor"
      [] o[1] \in {"Instruction to start provider ",
                   "Failed to send start capability message: "} -> "start_provider"
      [] o[1] \in {"Link def submission from ",
                   "Failed to send link def: "} -> "advertise_link"
      [] OTHER -> "none"

\* the outcomes recorded so far by apply_manifest
Recorded == out \o results

----------------------------------------------------------------------------
(* Properties of apply_manifest *)

\* C1: apply_manifest issues a start-actor per entry of actors in manifest
\* order, then a start-provider per entry of capabilities in manifest order,
\* then a put-link per entry of links in manifest order, whatever the
\* results of the items: the requests issued are always a prefix of that list.
C1_IssueOrder ==
    (IsApply /\ IsSome(hm)) =>
        IsPrefix([i \in DOMAIN calls |-> ItemOfCall(calls[i])],
                 ExpectedItems(Unwrap(hm)))

\* a run over actors, a capability and a link, with a failure on the way
C1_Witness ==
    /\ IsApply /\ IsSome(hm) /\ pc = "done"
    /\ Len(Unwrap(hm).actors) = 2
    /\ Unwrap(hm).actors[1] # Unwrap(hm).actors[2]
    /\ Len(Unwrap(hm).capabilities) = 1
    /\ Len(Unwrap(hm).links) = 1
    /\ Len(calls) = 4
    /\ Failed(responses[1]) /\ Failed(responses[3])

\* C2: a failed item (transport error or rejected ack) is recorded as that
\* item's outcome and does not stop the batch: apply_manifest returns only
\* when every item of the manifest has been attempted.
C2_FailureDoesNotStopBatch ==
    (IsApply /\ IsSome(hm)) =>
        /\ \A k \in DOMAIN responses :
              Failed(responses[k]) =>
                 /\ k <= Len(Recorded)
                 /\ ~MarkedAcknowledged(Recorded[k])
                 /\ FailureText(responses[k]) \in Range(Recorded[k])
        /\ IsSome(ret) => Len(calls) = NItems(Unwrap(hm))

\* a failure in each of the three phases, none of them the last item
C2_Witness ==
    /\ IsApply /\ IsSome(hm) /\ IsSome(ret)
    /\ Len(Unwrap(hm).actors) = 1
    /\ Len(Unwrap(hm).capabilities) = 1
    /\ Len(Unwrap(hm).links) = 2
    /\ ~responses[1].ok
    /\ responses[2].ok /\ ~responses[2].val.accepted
    /\ ~responses[3].ok
    /\ Len(calls) = 4

\* C3: the sequence apply_manifest returns has one entry per manifest item,
\* the i-th entry is about the i-th request issued, it is marked acknowledged
\* exactly when the i-th response was an ack with accepted = true, and
\* otherwise it carries the failure description of the i-th response.
C3_OutcomeSequence ==
    (IsApply /\ IsSome(hm) /\ IsSome(ret)) =>
        /\ Unwrap(ret).ok
        /\ Len(Unwrap(ret).val) = NItems(Unwrap(hm))
        /\ Len(responses) = NItems(Unwrap(hm))
        /\ \A i \in DOMAIN Unwrap(ret).val :
              LET o == Unwrap(ret).val[i]
                  r == responses[i]
              IN  /\ OutcomeOp(o) = calls[i].op
                  /\ MarkedAcknowledged(o) <=> ~Failed(r)
                  /\ Failed(r) => FailureText(r) \in Range(o)
                  /\ r.ok => Range(Tail(ItemOfCall(calls[i]))) \subseteq Range(o)

\* one failing actor start and one succeeding link put
C3_Witness ==
    /\ IsApply /\ IsSome(hm) /\ IsSome(ret)
    /\ Len(Unwrap(hm).actors) = 1
    /\ Len(Unwrap(hm).capabilities) = 0
    /\ Len(Unwrap(hm).links) = 1
    /\ Failed(responses[1])
    /\ ~Failed(responses[2])
    /\ Len(Unwrap(ret).val) = 2

\* C4: every manifest item is attempted exactly once: never more start-actor,
\* start-provider or put-link requests than the manifest has actors,
\* capabilities or links, and exactly as many when apply_manifest returns.
C4_EachItemOnce ==
    (IsApply /\ IsSome(hm)) =>
        /\ CountOp("start_actor") <= Len(Unwrap(hm).actors)
        /\ CountOp("start_provider") <= Len(Unwrap(hm).capabilities)
        /\ CountOp("advertise_link") <= Len(Unwrap(hm).links)
        /\ IsSome(ret) =>
              /\ CountOp("start_actor") = Len(Unwrap(hm).actors)
              /\ CountOp("start_provider") = Len(Unwrap(hm).capabilities)
              /\ CountOp("advertise_link") = Len(Unwrap(hm).links)

\* a link put that got a transport error, at the end of a run
C4_Witness ==
    /\ IsApply /\ IsSome(hm) /\ IsSome(ret)
    /\ Len(Unwrap(hm).links) = 2
    /\ Len(Unwrap(hm).actors) = 1
    /\ ~responses[1].ok
    /\ ~responses[2].ok
    /\ Failed(responses[3])

\* C5: apply_manifest has at most one request in flight: a request is issued
\* only when every earlier request has been answered.
C5_OneInFlight ==
    IsApply =>
        /\ Cardinality(inflight) <= 1
        /\ Len(calls) <= Len(responses) + 1
        /\ inflight = (1..Len(calls)) \ (1..Len(responses))

\* the third request in flight, the first two answered
C5_Witness ==
    /\ IsApply
    /\ inflight = {3}
    /\ Len(responses) = 2

----------------------------------------------------------------------------
(* Properties of start_actor and start_provider *)

\* the error start_* returns when the auction found no host
NoSuitableHost(c, e) ==
    \/ c.kind = "start_actor"
         /\ e = <<"No suitable hosts found for actor ", c.actor_ref>>
    \/ c.kind = "start_provider"
         /\ e = <<"No suitable hosts found for provider ", c.provider_ref>>

\* C6: with an explicit host id, start actor and start provider issue no
\* auction, do not fail on the constraint list, whatever it holds, and issue
\* one start call, to exactly that host.
C6_ExplicitHostNoAuction ==
    (IsStart /\ IsSome(cmd.host_id)) =>
        /\ \A i \in DOMAIN calls :
              /\ calls[i].op = cmd.kind
              /\ calls[i].host_id = Unwrap(cmd.host_id).server_id
        /\ Len(calls) <= 1
        /\ (IsSome(ret) /\ IsSome(client)) => Len(calls) = 1
        /\ (IsSome(ret) /\ ~Unwrap(ret).ok) =>
              Unwrap(ret).err \in {NatsError} \cup
                  {convert_error(r.err) : r \in {q \in Range(responses) : ~q.ok}}

\* an explicit host with a malformed constraint list, the start call answered
C6_Witness ==
    /\ cmd.kind = "start_provider"
    /\ IsSome(cmd.host_id)
    /\ cmd.constraints = Some(<<"arch">>)
    /\ IsSome(ret) /\ Unwrap(ret).ok
    /\ Len(calls) = 1
    /\ calls[1].host_id = "NHOST2"

\* C7: with no explicit host and an auction that returned no response, start
\* actor and start provider return the no-suitable-host error and issue no
\* start call.
C7_NoResponseNoStart ==
    (IsStart /\ ~IsSome(cmd.host_id) /\ suitable_hosts = Some(<<>>)) =>
        /\ IsSome(ret)
        /\ ~Unwrap(ret).ok
        /\ NoSuitableHost(cmd, Unwrap(ret).err)
        /\ \A i \in DOMAIN calls : calls[i].op \notin StartOps

\* an auction that was held and returned the empty list
C7_Witness ==
    /\ cmd.kind = "start_provider"
    /\ ~IsSome(cmd.host_id)
    /\ Len(calls) = 1 /\ calls[1].op = "perform_provider_auction"
    /\ Len(responses) = 1 /\ responses[1] = Ok(<<>>)
    /\ suitable_hosts = Some(<<>>)
    /\ pc = "done"

\* C8: with no explicit host and an auction that returned at least one
\* response, the start call goes to the host of the first response of the
\* list, whatever the other responses hold.
C8_FirstResponseWins ==
    (IsStart /\ ~IsSome(cmd.host_id)) =>
        \A i \in DOMAIN calls :
            calls[i].op \in StartOps =>
                /\ IsSome(suitable_hosts)
                /\ Len(Unwrap(suitable_hosts)) >= 1
                /\ calls[i].host_id = Unwrap(suitable_hosts)[1].host_id

\* two responses with different hosts, the start call issued
C8_Witness ==
    /\ cmd.kind = "start_actor"
    /\ ~IsSome(cmd.host_id)
    /\ IsSome(suitable_hosts)
    /\ Len(Unwrap(suitable_hosts)) = 2
    /\ Unwrap(suitable_hosts)[1].host_id = "NHOST1"
    /\ Unwrap(suitable_hosts)[2].host_id = "NHOST2"
    /\ Len(calls) = 2
    /\ calls[2].op = "start_actor"

----------------------------------------------------------------------------
(* Properties of ctl_client_from_opts *)

Digits == <<"0", "1", "2", "3", "4", "5", "6", "7", "8", "9">>

\* the decimal numeral of a natural number
RECURSIVE Decimal(_)
Decimal(n) ==
    IF n < 10 THEN Digits[n + 1]
    ELSE Decimal(n \div 10) \o Digits[(n % 10) + 1]

\* flag value, else the loaded context's value, else the default
Layered(flag, c, ctxValue, default) ==
    IF IsSome(flag) THEN Unwrap(flag)
    ELSE IF IsSome(c) THEN ctxValue
    ELSE default

\* C9: host, port, lattice prefix and request timeout are resolved field by
\* field: each is the explicit value if one was given, otherwise the value of
\* the loaded context if one was loaded, otherwise the built-in default.
C9_FieldByField ==
    IsSome(resolved) =>
        LET o == opts_of(cmd)
            r == Unwrap(resolved)
        IN  /\ r.ctl_host = Layered(o.ctl_host, ctx,
                     IF IsSome(ctx) THEN Unwrap(ctx).ctl_host ELSE "", "127.0.0.1")
            /\ r.ctl_port = Layered(o.ctl_port, ctx,
                     IF IsSome(ctx) THEN Decimal(Unwrap(ctx).ctl_port) ELSE "", "4222")
            /\ r.lattice_prefix = Layered(o.lattice_prefix, ctx,
                     IF IsSome(ctx) THEN Unwrap(ctx).ctl_lattice_prefix ELSE "",
                     "default")
            /\ r.timeout = Layered(o.timeout_ms, ctx,
                     IF IsSome(ctx) THEN Unwrap(ctx).ctl_timeout ELSE 0, 2000)

\* only the timeout overridden, host, port and prefix taken from the context
C9_Witness ==
    /\ cmd.kind = "link_query"
    /\ IsSome(resolved)
    /\ cmd.opts.timeout_ms = Some(500)
    /\ ~IsSome(cmd.opts.ctl_host)
    /\ ~IsSome(cmd.opts.ctl_port)
    /\ ~IsSome(cmd.opts.lattice_prefix)
    /\ cmd.opts.context = Some("ctx/prod.json")
    /\ Unwrap(resolved).timeout = 500
    /\ Unwrap(resolved).ctl_host = "prod.example"
    /\ Unwrap(resolved).ctl_port = "4223"
    /\ Unwrap(resolved).lattice_prefix = "prodlattice"

\* C10: when an explicit context path is supplied and the context at that
\* path fails to load, the command ends with an error.
C10_ExplicitContextFailureAborts ==
    (/\ IsSome(cmd.opts.context)
     /\ ~IsSome(load_context(env, Unwrap(cmd.opts.context)))
     /\ IsSome(ret))
        => ~Unwrap(ret).ok

\* C11: with no explicit context path and no default context, resolution goes
\* on without a context: every field the flags do not give is the built-in
\* default (127.0.0.1, 4222, "default", 2000; no jwt, seed or credentials
\* file), and the only failures are those of the connection itself.
C11_BuiltInDefaults ==
    (/\ pc # "client"
     /\ ~IsSome(opts_of(cmd).context)
     /\ ~IsSome(get_default_context(env)))
        => /\ IsSome(resolved)
           /\ ~IsSome(ctx)
           /\ LET o == opts_of(cmd)
                  r == Unwrap(resolved)
              IN  /\ ~IsSome(o.ctl_host) => r.ctl_host = "127.0.0.1"
                  /\ ~IsSome(o.ctl_port) => r.ctl_port = "4222"
                  /\ ~IsSome(o.lattice_prefix) => r.lattice_prefix = "default"
                  /\ ~IsSome(o.timeout_ms) => r.timeout = 2000
                  /\ r.ctl_jwt = o.ctl_jwt
                  /\ r.ctl_seed = o.ctl_seed
                  /\ r.ctl_credsfile = o.ctl_credsfile
                  /\ ~IsSome(client) =>
                        \/ ret = Some(Err(NatsError))
                        \/ /\ ret = Some(Err(ConfigError))
                           /\ IsSome(o.ctl_jwt) # IsSome(o.ctl_seed)

\* no flag at all and no context anywhere: the client is built from defaults
C11_Witness ==
    /\ cmd.kind = "link_query"
    /\ cmd.opts = NoFlags
    /\ ~IsSome(get_default_context(env))
    /\ IsSome(client)
    /\ Unwrap(resolved) = [timeout |-> 2000, lattice_prefix |-> "default",
                           ctl_host |-> "127.0.0.1", ctl_port |-> "4222",
                           ctl_jwt |-> None, ctl_seed |-> None,
                           ctl_credsfile |-> None]
    /\ Unwrap(client).nc.auth = [kind |-> "none"]

\* C12: the credentials the connection is made with follow the precedence
\* explicit jwt+seed pair, then explicit credentials file, then the
\* credentials of the context: an explicit pair is used even when a
\* credentials file is given too, and an explicit credentials file is used
\* whenever the flags give neither jwt nor seed, whatever the context holds.
C12_CredentialPrecedence ==
    IsSome(client) =>
        LET o == opts_of(cmd)
            a == Unwrap(client).nc.auth
        IN  /\ (IsSome(o.ctl_jwt) /\ IsSome(o.ctl_seed)) =>
                    a = [kind |-> "jwt", jwt |-> Unwrap(o.ctl_jwt),
                         seed |-> Unwrap(o.ctl_seed)]
            /\ (IsSome(o.ctl_credsfile) /\ ~IsSome(o.ctl_jwt)
                    /\ ~IsSome(o.ctl_seed)) =>
                    a = [kind |-> "credsfile", path |-> Unwrap(o.ctl_credsfile)]

C13_WitnessError ==
    /\ cmd.kind = "link_query"
    /\ cmd.opts.ctl_jwt = Some("flag.jwt")
    /\ IsSome(resolved)
    /\ ~IsSome(Unwrap(resolved).ctl_seed)
    /\ ret = Some(Err(ConfigError))
    /\ calls = <<>>

\* the requests of an auction among the requests made so far
AuctionCalls ==
    {i \in DOMAIN calls :
        calls[i].op \in {"perform_actor_auction", "perform_provider_auction"}}

\* C14: the client of start actor has a request timeout of 15 seconds and the
\* client of start provider one of 60 seconds when no timeout flag is given;
\* a timeout flag is used unchanged, as that many milliseconds.
C14_StartTimeouts ==
    (IsStart /\ IsSome(client)) =>
        Unwrap(client).timeout =
            IF IsSome(cmd.opts.timeout_ms)
            THEN Duration_from_millis(Unwrap(cmd.opts.timeout_ms))
            ELSE IF cmd.kind = "start_actor" THEN 15 * 1000 ELSE 60 * 1000

\* C15: the client's request timeout is the resolved timeout-ms value taken as
\* milliseconds, for every command.
C15_TimeoutInMilliseconds ==
    IsSome(client) =>
        Unwrap(client).timeout = Duration_from_millis(Unwrap(resolved).timeout)

\* C16 as stated: with no explicit auction window the window of a provider
\* auction is strictly longer than the window an actor auction gets by
\* default, and an explicit window is used exactly.
C16_ProviderWindowLonger ==
    \A i \in AuctionCalls :
        IF IsSome(cmd.auction_timeout_ms)
        THEN calls[i].timeout =
                Duration_from_millis(Unwrap(cmd.auction_timeout_ms))
        ELSE calls[i].op = "perform_provider_auction" =>
                calls[i].timeout > Duration_from_millis(DEFAULT_NATS_TIMEOUT)

\* C16: with no explicit auction window an actor auction and a provider
\* auction both use the same default window of 2000 milliseconds; an explicit
\* window is used exactly, for both kinds.
C16_SameDefaultWindow ==
    \A i \in AuctionCalls :
        calls[i].timeout =
            IF IsSome(cmd.auction_timeout_ms)
            THEN Duration_from_millis(Unwrap(cmd.auction_timeout_ms))
            ELSE 2000

\* a provider auction made with the default window
C16_Witness ==
    /\ cmd.kind = "start_provider"
    /\ ~IsSome(cmd.auction_timeout_ms)
    /\ Len(calls) >= 1
    /\ calls[1].op = "perform_provider_auction"
    /\ calls[1].timeout = 2000
    /\ Len(responses) >= 1

\* the put-link requests made so far, in the order they were made
AdvertiseCalls == SelectSeq(calls, LAMBDA c : c.op = "advertise_link")

\* the link name a request carries for a link name given or not given
NameOrDefault(o) == IF o = <<>> THEN "default" ELSE o[1]

\* C17: the put-link request for a manifest link entry carries the entry's
\* link name, and "default" when the entry has none; the requests of link put
\* and link del carry the command's link name in the same way.
C17_DefaultLinkName ==
    /\ IsApply =>
          \A k \in DOMAIN AdvertiseCalls :
              AdvertiseCalls[k].link_name =
                  NameOrDefault(Unwrap(hm).links[k].link_name)
    /\ cmd.kind \in {"link_put", "link_del"} =>
          \A i \in DOMAIN calls :
              /\ calls[i].op = IF cmd.kind = "link_put"
                               THEN "advertise_link" ELSE "remove_link"
              /\ calls[i].link_name = NameOrDefault(cmd.link_name)

\* a manifest with a nameless and a named link entry, both sent
C17_Witness ==
    /\ IsApply
    /\ pc = "done"
    /\ \E j, k \in DOMAIN AdvertiseCalls :
          /\ ~IsSome(Unwrap(hm).links[j].link_name)
          /\ AdvertiseCalls[j].link_name = "default"
          /\ Unwrap(hm).links[k].link_name = Some("backend")
          /\ AdvertiseCalls[k].link_name = "backend"

\* link del with no link name, sent with "default"
C17_WitnessLinkDel ==
    /\ cmd.kind = "link_del"
    /\ ~IsSome(cmd.link_name)
    /\ Len(calls) = 1
    /\ calls[1].link_name = "default"
    /\ pc = "exit"

\* the commands that make one mutating control call
MutatingCommands == AckCommands \cup {"link_put", "link_del"}

\* C18: when the mutating call of a start, stop, update, link put or link del
\* command is answered by an acknowledgement with accepted = false,
\* handle_command returns output (not an error) and that output carries the
\* rejection as its failure reason.
C18_RejectionVisible ==
    (/\ cmd.kind \in MutatingCommands
     /\ IsSome(handled)
     /\ Unwrap(ret).ok
     /\ ~Unwrap(ret).val.accepted)
        => LET h   == Unwrap(handled)
               ack == Unwrap(ret).val
           IN  /\ h.ok
               /\ IF cmd.kind \in {"link_put", "link_del"}
                  THEN IsSome(h.val.failure)
                  ELSE /\ h.val.accepted = FALSE
                       /\ h.val.error = ack.error

\* the responses so far that are transport errors
TransportErrors == {i \in DOMAIN responses : ~responses[i].ok}

\* C19 as stated: for every command other than manifest application, a
\* transport error of a control call makes handle_command return that error.
C19_TransportErrorPropagates ==
    (cmd.kind # "apply" /\ IsSome(handled)) =>
        \A i \in TransportErrors :
            Unwrap(handled) = Err(convert_error(responses[i].err))

\* C19: for every command other than manifest application, link put and link
\* del, a transport error of a control call makes handle_command return that
\* error; for link put and link del handle_command returns output whose
\* failure reason is that error.
C19_TransportErrorOutcome ==
    (cmd.kind # "apply" /\ IsSome(handled)) =>
        \A i \in TransportErrors :
            IF cmd.kind \in {"link_put", "link_del"}
            THEN /\ Unwrap(handled).ok
                 /\ Unwrap(handled).val.failure =
                        Some(convert_error(responses[i].err))
            ELSE Unwrap(handled) = Err(convert_error(responses[i].err))

\* stop actor whose request times out: handle_command returns the error
C19_Witness ==
    /\ cmd.kind = "stop_actor"
    /\ Len(calls) = 1
    /\ responses = <<Err("timeout1")>>
    /\ handled = Some(Err(<<"timeout1">>))

\* link put whose request times out: output with the error as failure reason
C19_WitnessLinkPut ==
    /\ cmd.kind = "link_put"
    /\ responses = <<Err("timeout1")>>
    /\ IsSome(handled)
    /\ Unwrap(handled).ok
    /\ Unwrap(handled).val.failure = Some(<<"timeout1">>)

\* the command ended in an error after a failure of configuration or of
\* placement: no client could be built, the constraint list is malformed, the
\* auction request failed, or the auction found no host
ConfigOrPlacementFailure ==
    /\ IsSome(ret)
    /\ ~Unwrap(ret).ok
    /\ \/ ~IsSome(client)
       \/ /\ ~IsSome(cmd.host_id)
          /\ ~constraint_labels(cmd).ok
          /\ Unwrap(ret).err = constraint_labels(cmd).err
       \/ \E i \in TransportErrors :
             calls[i].op \in {"perform_actor_auction", "perform_provider_auction"}
       \/ NoSuitableHost(cmd, Unwrap(ret).err)

\* C20: a start actor or start provider command that ends with a
\* configuration or placement failure has issued no start call.
C20_FailFast ==
    (IsStart /\ ConfigOrPlacementFailure) =>
        CountOp("start_actor") + CountOp("start_provider") = 0

\* the auction of a start actor command fails in transport: the command ends
\* with that error, the auction being its only request
C20_Witness ==
    /\ cmd.kind = "start_actor"
    /\ Len(calls) = 1
    /\ calls[1].op = "perform_actor_auction"
    /\ responses = <<Err("timeout1")>>
    /\ ret = Some(Err(<<"timeout1">>))
    /\ handled = Some(Err(<<"timeout1">>))

\* the auction of a start provider command finds no host
C20_WitnessNoHost ==
    /\ cmd.kind = "start_provider"
    /\ IsSome(ret)
    /\ ~Unwrap(ret).ok
    /\ NoSuitableHost(cmd, Unwrap(ret).err)
    /\ Len(calls) = 1

\* a malformed constraint list
C20_WitnessConstraints ==
    /\ IsStart
    /\ IsSome(client)
    /\ IsSome(ret)
    /\ ~constraint_labels(cmd).ok
    /\ Unwrap(ret) = Err(constraint_labels(cmd).err)
    /\ calls = <<>>

\* C21: with no timeout flag, the timeout start actor resolves is 15000 and
\* the one start provider resolves is 60000, also when a context was loaded,
\* whose timeout is then not used; every other command with no timeout flag
\* resolves the timeout of the loaded context.
C21_ContextTimeoutNotUsedByStart ==
    (IsSome(resolved) /\ ~IsSome(cmd.opts.timeout_ms)) =>
        LET r == Unwrap(resolved)
        IN  /\ cmd.kind = "start_actor" => r.timeout = 15000
            /\ cmd.kind = "start_provider" => r.timeout = 60000
            /\ (IsStart /\ IsSome(ctx)) => r.timeout # Unwrap(ctx).ctl_timeout
            /\ (~IsStart /\ IsSome(ctx)) => r.timeout = Unwrap(ctx).ctl_timeout

\* start actor with no timeout flag under a loaded context
C21_Witness ==
    /\ cmd.kind = "start_actor"
    /\ ~IsSome(cmd.opts.timeout_ms)
    /\ IsSome(ctx)
    /\ Unwrap(ctx).ctl_timeout = 7000
    /\ IsSome(client)
    /\ Unwrap(resolved).timeout = 15000

\* stop actor with no timeout flag under the same context
C21_WitnessOther ==
    /\ cmd.kind = "stop_actor"
    /\ ~IsSome(cmd.opts.timeout_ms)
    /\ IsSome(ctx)
    /\ IsSome(client)
    /\ Unwrap(resolved).timeout = 7000

\* the auction was answered and the host id of its first response is not a
\* valid host identifier
FirstHostInvalid ==
    /\ IsSome(suitable_hosts)
    /\ Unwrap(suitable_hosts) # <<>>
    /\ Unwrap(suitable_hosts)[1].host_id \notin ValidServerIds

\* C22: when the first response of the auction carries a host id that is not
\* a valid host identifier, start actor and start provider end with the parse
\* error of that id and issue no start call, whatever the later responses
\* hold.
C22_InvalidFirstHostNoFallback ==
    (IsStart /\ FirstHostInvalid) =>
        /\ ret = Some(Err(<<"invalid server key: ",
                            Unwrap(suitable_hosts)[1].host_id>>))
        /\ host = None
        /\ CountOp("start_actor") + CountOp("start_provider") = 0
        /\ Len(calls) = 1
        /\ IsSome(handled) => ~Unwrap(handled).ok

\* a provider auction answered by an invalid id followed by a valid one
C22_Witness ==
    /\ cmd.kind = "start_provider"
    /\ suitable_hosts = Some(<<[host_id |-> "garbage"], [host_id |-> "NHOST1"]>>)
    /\ handled = Some(Err(<<"invalid server key: ", "garbage">>))
    /\ Len(calls) = 1
    /\ calls[1].op = "perform_provider_auction"

\* the same for an actor auction
C22_WitnessActor ==
    /\ cmd.kind = "start_actor"
    /\ suitable_hosts = Some(<<[host_id |-> "garbage"], [host_id |-> "NHOST2"]>>)
    /\ handled = Some(Err(<<"invalid server key: ", "garbage">>))
    /\ Len(calls) = 1

\* apply_manifest has returned Ok with one outcome per item of the manifest,
\* after one control call per item, each of them answered
ApplyCompleted ==
    /\ IsApply
    /\ IsSome(hm)
    /\ IsSome(ret)
    /\ Unwrap(ret).ok
    /\ Len(Unwrap(ret).val) = NItems(Unwrap(hm))
    /\ Len(calls) = NItems(Unwrap(hm))
    /\ Len(responses) = NItems(Unwrap(hm))
    /\ inflight = {}

\* what apply_manifest may return: with the manifest loaded only the complete
\* success, whatever the answers were; without it only the load error, no
\* control call having been made
ApplyReturnsOnlyComplete ==
    (IsApply /\ IsSome(client)) =>
        /\ (IsSome(hm) /\ IsSome(ret)) => ApplyCompleted
        /\ IsSome(hm) => Len(calls) <= NItems(Unwrap(hm))
        /\ (~IsSome(env.manifest) /\ pc # "apply_manifest") =>
              /\ ret = Some(Err(<<"Failed to load manifest: ", cmd.path>>))
              /\ ~IsSome(hm)
              /\ calls = <<>>

\* C23: once the client is built and the manifest loaded, apply_manifest
\* ends, every control call returning, with Ok of the full list of outcomes
\* after exactly |actors| + |capabilities| + |links| control calls, and no
\* ack or transport error makes it return an error; when the manifest cannot
\* be loaded it returns an error and makes no control call.
C23_ApplyTerminates ==
    /\ []ApplyReturnsOnlyComplete
    /\ (IsApply /\ IsSome(hm)) ~> ApplyCompleted

\* a full manifest applied to the end with a transport error and a rejection
\* among the answers
C23_Witness ==
    /\ ApplyCompleted
    /\ NItems(Unwrap(hm)) = MaxItems
    /\ \E j, k \in DOMAIN responses :
          /\ ~responses[j].ok
          /\ responses[k].ok
          /\ ~responses[k].val.accepted
    /\ handled = Some(Ok([fn |-> "apply_manifest_output",
                          value |-> Unwrap(ret).val]))

\* the manifest cannot be loaded
C23_WitnessLoadFailure ==
    /\ IsApply
    /\ IsSome(client)
    /\ ~IsSome(env.manifest)
    /\ ret = Some(Err(<<"Failed to load manifest: ", cmd.path>>))
    /\ calls = <<>>

====
